---- MODULE Spec2Model ----
(***************************************************************************)
(* A model of qrlocal's public-tunnel session (package tunnel): NewTunnel, *)
(* Tunnel.connect with its scanning, drain and monitor goroutines,         *)
(* Tunnel.PublicURL, Tunnel.Close and Tunnel.Wait, together with the ssh   *)
(* subprocess and the two pipes it writes to.                              *)
(*                                                                         *)
(* Text is a sequence of tokens: "https://", an alphanumeric character     *)
(* "a", a dash "-", one token per provider domain, "txt" for any other     *)
(* text and "NL" for the newline.  A provider's URLRegex is the record     *)
(* [prefix, body, suffix] standing for  prefix https:// [body]+ suffix.    *)
(*                                                                         *)
(* Spec is a session used through NewTunnel and the Tunnel it returns;     *)
(* SpecShared and FairSpecCancel let Close run from the moment the Tunnel  *)
(* value exists.                                                           *)
(*                                                                         *)
(* Time is a set of armed timers; Tick lets time pass up to the next       *)
(* deadline.  A goroutine parked in a select is resumed by the first       *)
(* communication that becomes ready (variable woken, closePc).             *)
(***************************************************************************)
EXTENDS Integers, Sequences, FiniteSets, TLC

VARIABLES
    provider,     \* Config.Provider, copied to t.provider
    localPort,    \* Config.LocalPort, copied to t.localPort
    cfgTimeout,   \* cfg.Timeout: as given by the caller, defaulted by NewTunnel
    timeoutArg,   \* Config.Timeout as the caller of NewTunnel gave it
    args,         \* the arguments of the ssh command, <<>> until connect built them
    startErr,     \* the error cmd.Start returned, NoError if none
    cfg,          \* the *config.Config in use, NilConfig if there is none
    flags,        \* the command line: the port argument and the flags
    lookup,       \* the last resolution of a provider name: the name and what it gave
    run,          \* runQRLocal: its position, locals and what it did so far
    pc,           \* position of NewTunnel/connect
    result,       \* what connect returned
    ret,          \* what NewTunnel returned: "none", "tunnel", "nil"
    publicURL,    \* t.publicURL
    cmd,          \* t.cmd: "nil" or "set"
    woken,        \* the select case that resumed connect
    connTimer,    \* time.After(timeout) of connect's select, -1 when not armed
    proc,         \* t.cmd.Process: "nil", "running", "exited", "reaped"
    killSent,     \* a kill signal has been delivered to the running subprocess
    wopen,        \* write ends of stdout (1) and stderr (2) still open
    pipe,         \* unread content of the stdout (1) and stderr (2) pipes
    writes,       \* number of writes the subprocess has made
    spawns,       \* number of subprocesses started
    urlChan,      \* buffered channel, capacity 1
    errChan,      \* buffered channel, capacity 1
    ctxDone,      \* t.ctx is cancelled
    doneCloses,   \* how many times close(t.done) ran
    scanPc,       \* scanning goroutine: "off", "scan", "done"
    buf,          \* the part of the current line ReadString has read so far
    mr,           \* io.MultiReader: 1 reads stdout, 2 reads stderr, 3 exhausted
    drainPc,      \* drain goroutine: "off", "run", "done"
    pipesClosed,  \* cmd.Wait closed the read ends
    consumed,     \* everything the scanning goroutine has read, in order
    monPc,        \* monitor goroutine: "off", "wait", "close", "done"
    watchPc,      \* exec.CommandContext's watcher: "off", "on", "done"
    closePc,      \* position of a Close call
    closeCur,     \* the Close call in progress
    closes,       \* the Close calls that returned
    closeTimer,   \* time.After(5s) of Close's select, -1 when not armed
    waitPc,       \* a caller of Wait: "idle", "blocked", "released"
    urlWrites,    \* number of assignments to t.publicURL
    connKilled    \* connect called t.cmd.Process.Kill()

cfgVars  == <<provider, localPort, cfgTimeout>>
connVars == <<pc, result, ret, publicURL, cmd, woken, connTimer>>
procVars == <<proc, killSent, wopen, pipe, writes, spawns>>
chanVars == <<urlChan, errChan, ctxDone, doneCloses>>
readVars == <<scanPc, buf, mr, drainPc, pipesClosed, consumed>>
bgVars   == <<monPc, watchPc>>
cliVars  == <<closePc, closeCur, closes, closeTimer, waitPc>>
histVars == <<urlWrites, connKilled>>
callVars == <<timeoutArg, args, startErr>>
orchVars == <<cfg, flags, lookup, run>>
vars == <<orchVars, callVars, cfgVars, connVars, procVars, chanVars, readVars, bgVars, cliVars, histVars>>

----
\* Bounds of the model

MaxWrites == 2
MaxCloses == 2
MaxSharedCloses == 1
PipeCap == 10

\* Program constants

DefaultTimeout == 30
ChanCap == 1
CloseWait == 5

----
\* Text and patterns

NL == "NL"

Min(S) == CHOOSE x \in S : \A y \in S : x <= y

LocalhostRun ==
    [Name |-> "localhost.run", Host |-> "localhost.run", Port |-> "22", User |-> "nokey",
     URLRegex |-> [prefix |-> <<>>, body |-> {"a"}, suffix |-> {".lhr.life"}]]

Pinggy ==
    [Name |-> "pinggy", Host |-> "a.pinggy.io", Port |-> "443", User |-> "a",
     URLRegex |-> [prefix |-> <<>>, body |-> {"a", "-"}, suffix |-> {".a.free.pinggy.link"}]]

Serveo ==
    [Name |-> "serveo", Host |-> "serveo.net", Port |-> "22", User |-> "serveo",
     URLRegex |-> [prefix |-> <<>>, body |-> {"a"}, suffix |-> {".serveo.net"}]]

TunnelTo ==
    [Name |-> "tunnelto", Host |-> "tunnel.us.tunnel.to", Port |-> "22", User |-> "tunnel",
     URLRegex |-> [prefix |-> <<>>, body |-> {"a", "-"}, suffix |-> {".tunnel.to"}]]

Providers == {LocalhostRun, Pinggy}

Ports == {3000}

Timeouts == {0, 3}

\* Providers, ports and timeouts for the launch of the subprocess: the built-in
\* providers, a pinggy entry of the configuration with another relay host, a custom
\* entry on pinggy's relay host; ports at and beyond the ends of the valid range.
PinggyEU == [Pinggy EXCEPT !.Host = "eu.a.pinggy.io"]

MyPinggy == [Pinggy EXCEPT !.Name = "mypinggy"]

LaunchProviders == {LocalhostRun, Pinggy, Serveo, TunnelTo, PinggyEU, MyPinggy}

LaunchPorts == {0, 1, 3000, 65535, 65536}

LaunchTimeouts == {0, 3, 30}

\* The number of consecutive tokens of the character class from position j on
\* (the class is matched greedily).
RECURSIVE BodyRun(_, _, _)
BodyRun(re, line, j) ==
    IF j > Len(line) THEN 0
    ELSE IF line[j] \notin re.body THEN 0
    ELSE 1 + BodyRun(re, line, j + 1)

\* The length of the match of re that starts at position i of line, 0 if none.
MatchLen(re, line, i) ==
    IF i + Len(re.prefix) > Len(line) THEN 0
    ELSE IF SubSeq(line, i, i + Len(re.prefix) - 1) # re.prefix THEN 0
    ELSE IF line[i + Len(re.prefix)] # "https://" THEN 0
    ELSE IF BodyRun(re, line, i + Len(re.prefix) + 1) = 0 THEN 0
    ELSE IF i + Len(re.prefix) + BodyRun(re, line, i + Len(re.prefix) + 1) + 1 > Len(line) THEN 0
    ELSE IF line[i + Len(re.prefix) + BodyRun(re, line, i + Len(re.prefix) + 1) + 1]
                \notin re.suffix THEN 0
    ELSE Len(re.prefix) + BodyRun(re, line, i + Len(re.prefix) + 1) + 2

\* The text of the leftmost match of re in line at position i or later.
RECURSIVE FindFrom(_, _, _)
FindFrom(re, line, i) ==
    IF i > Len(line) THEN <<>>
    ELSE IF MatchLen(re, line, i) > 0 THEN SubSeq(line, i, i + MatchLen(re, line, i) - 1)
    ELSE FindFrom(re, line, i + 1)

\* regexp.FindString: the text of the leftmost match, empty if there is none.
FindString(re, line) == FindFrom(re, line, 1)

\* A variant that sends the line a match was found in.
ScanMatch_WholeLine(line) ==
    IF FindString(provider.URLRegex, line) # <<>> THEN line ELSE <<>>

\* What the scanning goroutine sends for a line: the match, not the line (line 215).
ScanMatch(line) == FindString(provider.URLRegex, line)

\* The position of the first newline of s, 0 if it has none.
FirstNL(s) ==
    IF \E i \in 1..Len(s) : s[i] = NL
    THEN CHOOSE i \in 1..Len(s) : s[i] = NL /\ \A j \in 1..(i - 1) : s[j] # NL
    ELSE 0

\* What the subprocess may write in one write.
Domain(p) == CHOOSE d \in p.URLRegex.suffix : TRUE

\* For a pattern that asks for text before the URL, also a line with that text.
Chunks(p) ==
    { <<"txt", NL>>,
      <<"txt", "https://", "a", Domain(p), "txt", NL>>,
      <<"https://", "a", "a", Domain(p)>>,
      <<"https://", "a", "-", "a", Domain(p), NL>> }
    \cup (IF p.URLRegex.prefix = <<>> THEN {}
          ELSE { p.URLRegex.prefix \o <<"https://", "a", Domain(p), NL>> })

\* An error of cmd.Start: whether it is a net.Error, its message, and where Start
\* finds it: the failed lookup of the executable is returned first, then the
\* error of a cancelled context, then the error of starting the process.
\* netErr: errors.As finds a net.Error in the chain, which holds of the
\* syscall.Errno a failed fork/exec wraps (it has Timeout() and Temporary()) and
\* not of the errors of the lookup and of the context.
SpawnErrors ==
    { [netErr |-> FALSE, msg |-> "executable file not found", at |-> "lookup"],
      [netErr |-> FALSE, msg |-> "cannot run executable found relative to current directory",
       at |-> "lookup"],
      [netErr |-> FALSE, msg |-> "context canceled", at |-> "context"],
      [netErr |-> TRUE, msg |-> "permission denied", at |-> "fork"] }

\* err == nil.
NoError == [netErr |-> FALSE, msg |-> "", at |-> "none"]

networkPatterns ==
    { "no such host", "connection refused", "network is unreachable", "no route to host",
      "connection timed out", "i/o timeout", "executable file not found" }

isNetworkError(e) == e.netErr \/ e.msg \in networkPatterns

----
\* The command line of the subprocess (lines 155-186)

\* An argument: its text, with the numbers that fmt.Sprintf formats into it (%d).
Str(x) == [s |-> <<x>>, n |-> <<>>]

\* A variant that chooses the remote port by the relay host.
RemoteForward_ByHost(p, port) ==
    [s |-> <<":localhost:">>, n |-> <<IF p.Host = "a.pinggy.io" THEN 0 ELSE 80, port>>]

\* remoteForward, lines 158-165: "0:localhost:<port>" for the provider named
\* pinggy, "80:localhost:<port>" for every other one.
RemoteForward(p, port) ==
    [s |-> <<":localhost:">>, n |-> <<IF p.Name = "pinggy" THEN 0 ELSE 80, port>>]

\* userHost, line 166.
UserHost(p) == [s |-> <<p.User, "@", p.Host>>, n |-> <<>>]

\* A variant that names the destination port always.
SSHArgs_AlwaysPort(p, port, timeout) ==
    << Str("-o"), Str("StrictHostKeyChecking=no"),
       Str("-o"), Str("UserKnownHostsFile=/dev/null"),
       Str("-o"), Str("LogLevel=ERROR"),
       Str("-o"), [s |-> <<"ConnectTimeout=">>, n |-> <<timeout>>],
       Str("-p"), Str(p.Port),
       Str("-R"), RemoteForward(p, port), UserHost(p) >>

\* args, lines 168-179.
SSHArgs(p, port, timeout) ==
    << Str("-o"), Str("StrictHostKeyChecking=no"),
       Str("-o"), Str("UserKnownHostsFile=/dev/null"),
       Str("-o"), Str("LogLevel=ERROR"),
       Str("-o"), [s |-> <<"ConnectTimeout=">>, n |-> <<timeout>>] >>
    \o (IF p.Port # "22" THEN <<Str("-p"), Str(p.Port)>> ELSE <<>>)
    \o <<Str("-R"), RemoteForward(p, port), UserHost(p)>>

\* A variant that passes the timeout on as it is.
TimeoutOrDefault_Keep(t) == t

\* cfg.Timeout as NewTunnel hands it to connect (lines 132-134).
TimeoutOrDefault(t) == IF t = 0 THEN DefaultTimeout ELSE t

----
\* The configuration (part_002) and the providers built from it (part_001 lines 67-109)

\* The sources of the URL patterns, as sequences of tokens: the default
\* configuration's four, and two that do not compile.
LhrSource == <<"https://", "[", "a", "]", "+", ".lhr.life">>

PinggySource == <<"https://", "[", "a", "-", "]", "+", ".a.free.pinggy.link">>

ServeoSource ==
    <<"Forwarding HTTP traffic from ", "(", "https://", "[", "a", "-", "]", "+",
      "(?:", ".serveo.net", "|", ".serveousercontent.com", ")", ")">>

TunnelToSource == <<"https://", "[", "a", "-", "]", "+", ".tunnel.to">>

UnclosedClassSource == <<"https://", "[", "a", "+", ".example.com">>

UnclosedGroupSource == <<"(", "https://", "[", "a", "]", "+", ".example.com">>

\* The syntax error regexp.Compile reports for src from token i on, "" if none:
\* depth is the number of open groups, inClass whether a "[" is open.
RECURSIVE CompileError(_, _, _, _)
CompileError(src, i, depth, inClass) ==
    IF i > Len(src)
    THEN (IF inClass THEN "missing closing ]"
          ELSE IF depth > 0 THEN "missing closing )"
          ELSE "")
    ELSE IF inClass
    THEN CompileError(src, i + 1, depth, src[i] # "]")
    ELSE IF src[i] = "[" THEN CompileError(src, i + 1, depth, TRUE)
    ELSE IF src[i] \in {"(", "(?:"} THEN CompileError(src, i + 1, depth + 1, FALSE)
    ELSE IF src[i] = ")"
    THEN (IF depth = 0 THEN "unexpected )"
          ELSE CompileError(src, i + 1, depth - 1, FALSE))
    ELSE IF src[i] = "+" /\ (i = 1 \/ src[i - 1] \in {"(", "(?:", "|"})
    THEN "missing argument to repetition operator"
    ELSE CompileError(src, i + 1, depth, FALSE)

\* The position of token t in src, 0 if it is not there.
IndexOf(src, t) ==
    IF \E i \in 1..Len(src) : src[i] = t
    THEN CHOOSE i \in 1..Len(src) : src[i] = t /\ \A j \in 1..(i - 1) : src[j] # t
    ELSE 0

\* The nil *regexp.Regexp.
NoRegex == [prefix |-> <<>>, body |-> {}, suffix |-> {}]

\* The matcher of a source that compiles: the text before "https://" (a group
\* opened there matches nothing itself), the character class, the alternatives
\* of what follows the repetition.
Matcher(src) ==
    [prefix |-> SelectSeq(SubSeq(src, 1, IndexOf(src, "https://") - 1),
                          LAMBDA t : t \notin {"(", "(?:"}),
     body   |-> {src[i] : i \in (IndexOf(src, "[") + 1)..(IndexOf(src, "]") - 1)},
     suffix |-> {src[i] : i \in (IndexOf(src, "+") + 1)..Len(src)}
                    \ {"(", "(?:", "|", ")"}]

\* regexp.Compile.
Compile(src) ==
    IF CompileError(src, 1, 0, FALSE) = ""
    THEN [err |-> "", re |-> Matcher(src)]
    ELSE [err |-> CompileError(src, 1, 0, FALSE), re |-> NoRegex]

\* strconv.Itoa, for the ports in use.
Itoa(n) ==
    CASE n = 22 -> "22"
      [] n = 443 -> "443"
      [] n = 2222 -> "2222"
      [] OTHER -> "0"

\* strings.ToLower, for the names in use.
ToLower(name) ==
    CASE name = "Pinggy" -> "pinggy"
      [] name = "SERVEO" -> "serveo"
      [] name = "LocalHost.Run" -> "localhost.run"
      [] name = "Mine" -> "mine"
      [] OTHER -> name

\* Provider{} and ProviderConfig{}.
NoProvider == [Name |-> "", Host |-> "", Port |-> "", User |-> "", URLRegex |-> NoRegex]

NoProviderConfig == [Host |-> "", Port |-> 0, User |-> "", URLRegex |-> <<>>]

NoProviders == [n \in {} |-> NoProviderConfig]

\* DefaultConfig (part_002 lines 53-86).
DefaultProviders ==
    ("localhost.run" :>
        [Host |-> "localhost.run", Port |-> 22, User |-> "nokey", URLRegex |-> LhrSource])
    @@ ("pinggy" :>
        [Host |-> "a.pinggy.io", Port |-> 443, User |-> "a", URLRegex |-> PinggySource])
    @@ ("serveo" :>
        [Host |-> "serveo.net", Port |-> 22, User |-> "serveo", URLRegex |-> ServeoSource])
    @@ ("tunnelto" :>
        [Host |-> "tunnel.us.tunnel.to", Port |-> 22, User |-> "tunnel",
         URLRegex |-> TunnelToSource])

DefaultConfig ==
    [isNil |-> FALSE, DefaultProvider |-> "localhost.run", CopyToClipboard |-> FALSE,
     Providers |-> DefaultProviders, CustomProviders |-> NoProviders]

\* No configuration: the nil *config.Config.
NilConfig ==
    [isNil |-> TRUE, DefaultProvider |-> "", CopyToClipboard |-> FALSE,
     Providers |-> NoProviders, CustomProviders |-> NoProviders]

\* Configurations a file gives (Load, part_002 lines 90-120, decodes the file onto
\* the default configuration): custom providers, one of them under a name the
\* providers map has too, one under an alias of a built-in, one whose pattern does
\* not compile; a providers entry replaced by one whose pattern does not compile.
MineConfig == [Host |-> "tunnel.example.com", Port |-> 2222, User |-> "me", URLRegex |-> LhrSource]

CustomConfig ==
    [DefaultConfig EXCEPT
        !.DefaultProvider = "mine",
        !.CopyToClipboard = TRUE,
        !.CustomProviders =
            ("mine" :> MineConfig)
            @@ ("pinggy" :> [MineConfig EXCEPT !.Host = "pinggy.example.com"])
            @@ ("localhostrun" :> [MineConfig EXCEPT !.Port = 22])
            @@ ("broken" :> [MineConfig EXCEPT !.URLRegex = UnclosedClassSource])]

BrokenConfig ==
    [DefaultConfig EXCEPT
        !.DefaultProvider = "serveo",
        !.Providers = [DefaultProviders EXCEPT
                          !["serveo"].URLRegex = UnclosedGroupSource,
                          !["pinggy"].Host = "eu.a.pinggy.io"]]

FileConfigs == {DefaultConfig, CustomConfig, BrokenConfig}

\* Configurations GetProvider may be called with besides: none, one whose file
\* sets the providers map to null, one with custom providers under names that
\* differ from built-in names by case or are aliases of them.
BareConfig == [DefaultConfig EXCEPT !.Providers = NoProviders]

AliasConfig ==
    [DefaultConfig EXCEPT
        !.CustomProviders = ("Pinggy" :> MineConfig)
                            @@ ("serveo.net" :> [MineConfig EXCEPT !.Port = 443])]

ResolveConfigs == FileConfigs \cup {NilConfig, BareConfig, AliasConfig}

\* Provider names a caller may ask for.
Names ==
    { "localhost.run", "localhostrun", "pinggy", "pinggy.io", "serveo", "serveo.net",
      "tunnelto", "tunnel.to", "Pinggy", "SERVEO", "LocalHost.Run", "mine", "Mine",
      "broken", "nope", "" }

\* A variant that looks at the custom providers first.
ConfigGetProvider_CustomFirst(c, name) ==
    IF name \in DOMAIN c.CustomProviders THEN [ok |-> TRUE, p |-> c.CustomProviders[name]]
    ELSE IF name \in DOMAIN c.Providers THEN [ok |-> TRUE, p |-> c.Providers[name]]
    ELSE [ok |-> FALSE, p |-> NoProviderConfig]

\* Config.GetProvider (part_002 lines 155-167): the providers map, then the custom
\* providers.
ConfigGetProvider(c, name) ==
    IF name \in DOMAIN c.Providers THEN [ok |-> TRUE, p |-> c.Providers[name]]
    ELSE IF name \in DOMAIN c.CustomProviders THEN [ok |-> TRUE, p |-> c.CustomProviders[name]]
    ELSE [ok |-> FALSE, p |-> NoProviderConfig]

\* A variant that builds the Provider whether the pattern compiles or not.
ProviderFromConfig_Unchecked(name, pc0) ==
    [err |-> "",
     p |-> [Name |-> name, Host |-> pc0.Host, Port |-> Itoa(pc0.Port), User |-> pc0.User,
            URLRegex |-> Compile(pc0.URLRegex).re]]

\* ProviderFromConfig (lines 67-80).
ProviderFromConfig(name, pc0) ==
    IF Compile(pc0.URLRegex).err # ""
    THEN [err |-> "invalid URL regex", p |-> NoProvider]
    ELSE [err |-> "",
          p |-> [Name |-> name, Host |-> pc0.Host, Port |-> Itoa(pc0.Port),
                 User |-> pc0.User, URLRegex |-> Compile(pc0.URLRegex).re]]

\* ListBuiltinProviders (lines 106-109).
ListBuiltinProviders == <<"localhost.run", "pinggy", "serveo", "tunnelto">>

\* GetProvider (lines 83-104).
GetProvider(name, c) ==
    IF ~c.isNil /\ ConfigGetProvider(c, name).ok
    THEN ProviderFromConfig(name, ConfigGetProvider(c, name).p)
    ELSE IF ToLower(name) \in {"localhost.run", "localhostrun"}
    THEN [err |-> "", p |-> LocalhostRun]
    ELSE IF ToLower(name) \in {"pinggy", "pinggy.io"} THEN [err |-> "", p |-> Pinggy]
    ELSE IF ToLower(name) \in {"serveo", "serveo.net"} THEN [err |-> "", p |-> Serveo]
    ELSE IF ToLower(name) \in {"tunnelto", "tunnel.to"} THEN [err |-> "", p |-> TunnelTo]
    ELSE [err |-> "unknown provider", p |-> NoProvider]

\* No call of GetProvider yet.
NoLookup == [called |-> FALSE, name |-> "", out |-> [err |-> "", p |-> NoProvider]]

----
\* Initial state: a Config handed to NewTunnel, nothing started.

\* No Tunnel yet: nothing built, spawned, sent or read.
TunnelIdle ==
    /\ args = <<>>
    /\ startErr = NoError
    /\ result = "none"
    /\ ret = "none"
    /\ publicURL = <<>>
    /\ cmd = "nil"
    /\ woken = "none"
    /\ connTimer = -1
    /\ proc = "nil"
    /\ killSent = FALSE
    /\ wopen = <<TRUE, TRUE>>
    /\ pipe = <<<<>>, <<>>>>
    /\ writes = 0
    /\ spawns = 0
    /\ urlChan = <<>>
    /\ errChan = <<>>
    /\ ctxDone = FALSE
    /\ doneCloses = 0
    /\ scanPc = "off"
    /\ buf = <<>>
    /\ mr = 1
    /\ drainPc = "off"
    /\ pipesClosed = FALSE
    /\ consumed = <<>>
    /\ monPc = "off"
    /\ watchPc = "off"
    /\ closePc = "idle"
    /\ closeCur = [at |-> "none", blocked |-> FALSE, waited |-> 0]
    /\ closes = <<>>
    /\ closeTimer = -1
    /\ waitPc = "idle"
    /\ urlWrites = 0
    /\ connKilled = FALSE

\* The command line and runQRLocal when the session is used without them.
NoFlags == [port |-> "", public |-> FALSE, copy |-> "unset", provider |-> ""]

NoURL == [s |-> <<>>, n |-> <<>>]

NotRendered == [done |-> FALSE, ok |-> FALSE, url |-> NoURL, isPublic |-> FALSE]

RunIdle ==
    [pc |-> "idle", port |-> 0, copyFlag |-> FALSE, url |-> NoURL, isPublic |-> FALSE,
     activeTunnel |-> FALSE, err |-> NoURL, localIP |-> "", listener |-> "unchecked",
     probe |-> "none",
     clipboard |-> "none", rendered |-> NotRendered, report |-> "none"]

InitWith(P, L, T) ==
    /\ provider \in P
    /\ localPort \in L
    /\ cfgTimeout \in T
    /\ timeoutArg = cfgTimeout
    /\ pc = "new"
    /\ TunnelIdle
    /\ cfg = NilConfig
    /\ flags = NoFlags
    /\ lookup = NoLookup
    /\ run = RunIdle

Init == InitWith(Providers, Ports, Timeouts)

----
\* connect's select (lines 235-256)

\* Variants of the select without the errChan case and without the t.ctx.Done() case.
SelectCases_NoErr == {"url", "timeout", "cancel"}

SelectCases_NoCtx == {"url", "err", "timeout"}

\* The cases connect's select waits on.
SelectCases == {"url", "err", "timeout", "cancel"}

\* connect is parked in its select and no case has resumed it yet.
Parked == pc = "select" /\ woken = "none"

\* A communication of case c becomes ready: it resumes connect if connect is
\* parked on it, and then the other cases no longer matter.
ConnWake(c) ==
    /\ woken' = IF Parked /\ c \in SelectCases THEN c ELSE woken
    /\ connTimer' = IF Parked /\ c \in SelectCases THEN -1 ELSE connTimer

\* The cases of connect's select that can proceed without waiting.
ReadyCases ==
    {c \in SelectCases : \/ c = "url" /\ urlChan # <<>>
                         \/ c = "err" /\ errChan # <<>>
                         \/ c = "cancel" /\ ctxDone}

\* A variant that drops the URL it received.
StoreURL_Skip(url) == UNCHANGED <<publicURL, urlWrites>>

\* t.publicURL = url (lines 237-239).
StoreURL(url) ==
    /\ publicURL' = url
    /\ urlWrites' = urlWrites + 1

\* A variant in which t.done is signalled once to whoever waits, not closed.
DoneClosed_Never == FALSE

\* <-t.done can proceed: t.done is closed (lines 275, 284).
DoneClosed == doneCloses > 0

\* A variant of the select of Close without the time.After case.
CloseCases_NoTimer == {"done"}

\* The cases the select of Close waits on (lines 274-279).
CloseCases == {"done", "timeout"}

\* A variant that sends no signal.
Kill_Skip == UNCHANGED killSent

\* Process.Kill(): the signal reaches a subprocess that is still running.
Kill == killSent' = (killSent \/ proc = "running")

----
\* NewTunnel and connect

\* A variant that fills in the default port of the protocol.
TunnelProvider_DefaultPort(p) == [p EXCEPT !.Port = "22"]

\* provider: cfg.Provider in the Tunnel literal of NewTunnel (line 140): a copy.
TunnelProvider(p) == p

\* NewTunnel, lines 131-144: default the timeout, create the context and the Tunnel.
NewTunnel ==
    /\ pc = "new"
    /\ cfgTimeout' = TimeoutOrDefault(cfgTimeout)
    /\ provider' = TunnelProvider(provider)
    /\ pc' = "build"
    /\ UNCHANGED <<orchVars, callVars, localPort, result, ret, publicURL, cmd, woken,
                   connTimer, procVars,
                   chanVars, readVars, bgVars, cliVars, histVars>>

\* connect, lines 155-196: build the arguments, t.cmd and the two pipes.
ConnectBuild ==
    /\ pc = "build"
    /\ cmd' = "set"
    /\ args' = SSHArgs(provider, localPort, cfgTimeout)
    /\ pc' = "start"
    /\ UNCHANGED <<orchVars, timeoutArg, startErr, cfgVars, result, ret, publicURL, woken, connTimer, procVars,
                   chanVars, readVars, bgVars, cliVars, histVars>>

\* connect, lines 198-233: cmd.Start succeeds (the context is not cancelled), the
\* watcher of exec.CommandContext and the scanning goroutine start.
StartOk ==
    /\ pc = "start"
    /\ ~ctxDone
    /\ proc' = "running"
    /\ spawns' = spawns + 1
    /\ watchPc' = "on"
    /\ scanPc' = "scan"
    /\ pc' = "selectEntry"
    /\ UNCHANGED <<orchVars, callVars, cfgVars, result, ret, publicURL, cmd, woken, connTimer,
                   killSent, wopen, pipe, writes, chanVars, buf, mr, drainPc,
                   pipesClosed, consumed, monPc, cliVars, histVars>>

\* connect, lines 198-203: cmd.Start fails; with a cancelled context it fails
\* with the context's error, at the latest, before anything is spawned.
StartFail ==
    /\ pc = "start"
    /\ \E e \in SpawnErrors :
        /\ e.at = "context" => ctxDone
        /\ e.at = "fork" => ~ctxDone
        /\ result' = IF isNetworkError(e) THEN "TunnelUnreachable" ELSE "LaunchFailed"
        /\ startErr' = e
    /\ pc' = "ret"
    /\ UNCHANGED <<orchVars, timeoutArg, args, cfgVars, ret, publicURL, cmd, woken, connTimer, procVars,
                   chanVars, readVars, bgVars, cliVars, histVars>>

\* connect enters the select of line 235: a case that is ready is taken (any of
\* them if several are), otherwise connect parks with the timer armed.
SelectEntry ==
    /\ pc = "selectEntry"
    /\ IF ReadyCases # {}
       THEN /\ woken' \in ReadyCases
            /\ connTimer' = -1
       ELSE /\ woken' = "none"
            /\ connTimer' = IF "timeout" \in SelectCases THEN cfgTimeout ELSE -1
    /\ pc' = "select"
    /\ UNCHANGED <<orchVars, callVars, cfgVars, result, ret, publicURL, cmd, procVars, chanVars,
                   readVars, bgVars, cliVars, histVars>>

\* connect, lines 236-246: the URL arrived; store it, start the monitor goroutine.
SelectURL ==
    /\ pc = "select"
    /\ woken = "url"
    /\ StoreURL(Head(urlChan))
    /\ urlChan' = Tail(urlChan)
    /\ monPc' = "wait"
    /\ result' = "Established"
    /\ woken' = "none"
    /\ pc' = "ret"
    /\ UNCHANGED <<orchVars, callVars, cfgVars, ret, cmd, connTimer, procVars, errChan, ctxDone,
                   doneCloses, readVars, watchPc, cliVars, connKilled>>

\* connect, lines 247-249: the scanning goroutine reported an error.
SelectErr ==
    /\ pc = "select"
    /\ woken = "err"
    /\ Kill
    /\ connKilled' = TRUE
    /\ result' = Head(errChan)
    /\ errChan' = Tail(errChan)
    /\ woken' = "none"
    /\ pc' = "ret"
    /\ UNCHANGED <<orchVars, callVars, cfgVars, ret, publicURL, cmd, connTimer, proc, wopen, pipe,
                   writes, spawns, urlChan, ctxDone, doneCloses, readVars, bgVars,
                   cliVars, urlWrites>>

\* connect, lines 250-252: the timer fired.
SelectTimeout ==
    /\ pc = "select"
    /\ woken = "timeout"
    /\ Kill
    /\ connKilled' = TRUE
    /\ result' = "ConnectTimeout"
    /\ woken' = "none"
    /\ pc' = "ret"
    /\ UNCHANGED <<orchVars, callVars, cfgVars, ret, publicURL, cmd, connTimer, proc, wopen, pipe,
                   writes, spawns, chanVars, readVars, bgVars, cliVars, urlWrites>>

\* connect, lines 253-255: the context was cancelled.
SelectCancelled ==
    /\ pc = "select"
    /\ woken = "cancel"
    /\ Kill
    /\ connKilled' = TRUE
    /\ result' = "Cancelled"
    /\ woken' = "none"
    /\ pc' = "ret"
    /\ UNCHANGED <<orchVars, callVars, cfgVars, ret, publicURL, cmd, connTimer, proc, wopen, pipe,
                   writes, spawns, chanVars, readVars, bgVars, cliVars, urlWrites>>

\* NewTunnel, lines 146-151: on an error cancel the context and return nil.
NewTunnelReturn ==
    /\ pc = "ret"
    /\ IF result = "Established"
       THEN /\ ret' = "tunnel"
            /\ UNCHANGED ctxDone
       ELSE /\ ret' = "nil"
            /\ ctxDone' = TRUE
    /\ pc' = "done"
    /\ UNCHANGED <<orchVars, callVars, cfgVars, result, publicURL, cmd, woken, connTimer, procVars,
                   urlChan, errChan, doneCloses, readVars, bgVars, cliVars, histVars>>

----
\* The scanning goroutine (lines 208-233) and the drain goroutine (lines 230-232),
\* both reading combined == io.MultiReader(stdout, stderr)

\* A variant with unbuffered channels: a send proceeds only while connect is
\* parked in its select.
SendReady_Unbuffered(ch) == Parked

\* A send on urlChan or errChan can proceed: the channel has room (lines 205-206).
SendReady(ch) == Len(ch) < ChanCap

\* What ReadString gets from the reader the MultiReader is at: its content up to
\* and including the first newline if there is one, all of it otherwise.
ScanGot ==
    IF FirstNL(pipe[mr]) > 0 THEN SubSeq(pipe[mr], 1, FirstNL(pipe[mr])) ELSE pipe[mr]

\* The line ReadString has, and whether it is complete.
ScanLine == buf \o ScanGot

ScanLineComplete == FirstNL(pipe[mr]) > 0

\* ReadString returned a complete line that has a match: send the match, leave the
\* loop and start the drain goroutine (lines 213-218, 230-232).
ScanFound ==
    /\ scanPc = "scan"
    /\ mr \in {1, 2}
    /\ pipe[mr] # <<>>
    /\ ScanLineComplete
    /\ ScanMatch(ScanLine) # <<>>
    /\ SendReady(urlChan)
    /\ pipe' = [pipe EXCEPT ![mr] = SubSeq(pipe[mr], Len(ScanGot) + 1, Len(pipe[mr]))]
    /\ consumed' = consumed \o ScanGot
    /\ urlChan' = Append(urlChan, ScanMatch(ScanLine))
    /\ ConnWake("url")
    /\ buf' = <<>>
    /\ scanPc' = "done"
    /\ drainPc' = "run"
    /\ UNCHANGED <<orchVars, callVars, cfgVars, pc, result, ret, publicURL, cmd, proc, killSent, wopen,
                   writes, spawns, errChan, ctxDone, doneCloses, mr, pipesClosed, bgVars,
                   cliVars, histVars>>

\* ReadString read on: a complete line without a match is discarded, an
\* incomplete line is kept until the rest of it arrives (lines 213-219).
ScanRead ==
    /\ scanPc = "scan"
    /\ mr \in {1, 2}
    /\ pipe[mr] # <<>>
    /\ ~(ScanLineComplete /\ ScanMatch(ScanLine) # <<>>)
    /\ pipe' = [pipe EXCEPT ![mr] = SubSeq(pipe[mr], Len(ScanGot) + 1, Len(pipe[mr]))]
    /\ consumed' = consumed \o ScanGot
    /\ buf' = IF ScanLineComplete THEN <<>> ELSE ScanLine
    /\ UNCHANGED <<orchVars, callVars, cfgVars, connVars, proc, killSent, wopen, writes, spawns, chanVars,
                   scanPc, mr, drainPc, pipesClosed, bgVars, cliVars, histVars>>

\* The reader the MultiReader is at returned EOF: it moves on to the next one.
ScanNextReader ==
    /\ scanPc = "scan"
    /\ mr \in {1, 2}
    /\ pipe[mr] = <<>>
    /\ ~wopen[mr]
    /\ mr' = mr + 1
    /\ UNCHANGED <<orchVars, callVars, cfgVars, connVars, procVars, chanVars, scanPc, buf, drainPc, pipesClosed,
                   consumed, bgVars, cliVars, histVars>>

\* A variant that looks at the error of ReadString before the text it returned.
ScanEOFMatch_ErrFirst == FALSE

\* The text ReadString returned together with io.EOF is not empty and has a
\* match: the pattern is tried before err is looked at (lines 213-219).
ScanEOFMatch == Len(buf) > 0 /\ ScanMatch(buf) # <<>>

\* ReadString returned what is left together with io.EOF and it has a match: the
\* match is sent as the URL (lines 213-218).
ScanEOFFound ==
    /\ scanPc = "scan"
    /\ mr = 3
    /\ ScanEOFMatch
    /\ SendReady(urlChan)
    /\ urlChan' = Append(urlChan, ScanMatch(buf))
    /\ ConnWake("url")
    /\ buf' = <<>>
    /\ scanPc' = "done"
    /\ drainPc' = "run"
    /\ UNCHANGED <<orchVars, callVars, cfgVars, pc, result, ret, publicURL, cmd, procVars, errChan, ctxDone,
                   doneCloses, mr, pipesClosed, consumed, bgVars, cliVars, histVars>>

\* ReadString returned io.EOF and there is no match: the error is sent (lines 220-226).
ScanEOF ==
    /\ scanPc = "scan"
    /\ mr = 3
    /\ ~ScanEOFMatch
    /\ SendReady(errChan)
    /\ errChan' = Append(errChan, "NoURLProduced")
    /\ ConnWake("err")
    /\ buf' = <<>>
    /\ scanPc' = "done"
    /\ drainPc' = "run"
    /\ UNCHANGED <<orchVars, callVars, cfgVars, pc, result, ret, publicURL, cmd, procVars, urlChan, ctxDone,
                   doneCloses, mr, pipesClosed, consumed, bgVars, cliVars, histVars>>

\* io.Copy(io.Discard, combined) read what the current reader holds.
DrainRead ==
    /\ drainPc = "run"
    /\ ~pipesClosed
    /\ mr \in {1, 2}
    /\ pipe[mr] # <<>>
    /\ pipe' = [pipe EXCEPT ![mr] = <<>>]
    /\ UNCHANGED <<orchVars, callVars, cfgVars, connVars, proc, killSent, wopen, writes, spawns, chanVars,
                   readVars, bgVars, cliVars, histVars>>

\* The current reader returned EOF: the MultiReader moves on.
DrainNextReader ==
    /\ drainPc = "run"
    /\ ~pipesClosed
    /\ mr \in {1, 2}
    /\ pipe[mr] = <<>>
    /\ ~wopen[mr]
    /\ mr' = mr + 1
    /\ UNCHANGED <<orchVars, callVars, cfgVars, connVars, procVars, chanVars, scanPc, buf, drainPc, pipesClosed,
                   consumed, bgVars, cliVars, histVars>>

\* io.Copy returns: every reader is at EOF, or cmd.Wait closed the read ends.
DrainEnd ==
    /\ drainPc = "run"
    /\ mr = 3 \/ pipesClosed
    /\ drainPc' = "done"
    /\ UNCHANGED <<orchVars, callVars, cfgVars, connVars, procVars, chanVars, scanPc, buf, mr, pipesClosed,
                   consumed, bgVars, cliVars, histVars>>

----
\* The monitor goroutine (lines 241-244) and the watcher of exec.CommandContext (line 186)

\* A variant of the monitor that goes on to close(t.done) without t.cmd.Wait().
MonitorWait_NoWait ==
    /\ monPc = "wait"
    /\ monPc' = "close"
    /\ UNCHANGED <<orchVars, callVars, cfgVars, connVars, procVars, chanVars, readVars, watchPc, cliVars, histVars>>

\* t.cmd.Wait() returns once the subprocess has exited; it reaps it, closes the
\* read ends of the pipes and ends the watcher.
MonitorWait ==
    /\ monPc = "wait"
    /\ proc = "exited"
    /\ proc' = "reaped"
    /\ pipesClosed' = TRUE
    /\ watchPc' = "done"
    /\ monPc' = "close"
    /\ UNCHANGED <<orchVars, callVars, cfgVars, connVars, killSent, wopen, pipe, writes, spawns, chanVars,
                   scanPc, buf, mr, drainPc, consumed, cliVars, histVars>>

\* close(t.done): a Close parked on t.done is resumed.
MonitorClose ==
    /\ monPc = "close"
    /\ doneCloses' = doneCloses + 1
    /\ monPc' = "done"
    /\ IF closePc = "select" /\ "done" \in CloseCases
       THEN closePc' = "done" /\ closeTimer' = -1
       ELSE UNCHANGED <<closePc, closeTimer>>
    /\ UNCHANGED <<orchVars, callVars, cfgVars, connVars, procVars, urlChan, errChan, ctxDone, readVars, watchPc,
                   closeCur, closes, waitPc, histVars>>

\* The watcher sees t.ctx cancelled and kills the subprocess.
CtxWatch ==
    /\ watchPc = "on"
    /\ ctxDone
    /\ Kill
    /\ watchPc' = "done"
    /\ UNCHANGED <<orchVars, callVars, cfgVars, connVars, proc, wopen, pipe, writes, spawns, chanVars, readVars,
                   monPc, cliVars, histVars>>

----
\* The subprocess

\* It writes to its standard output (s = 1) or standard error (s = 2).
ProcWrite ==
    /\ proc = "running"
    /\ writes < MaxWrites
    /\ \E s \in {1, 2}, c \in Chunks(provider) :
        /\ wopen[s]
        /\ Len(pipe[s]) + Len(c) <= PipeCap
        /\ pipe' = [pipe EXCEPT ![s] = pipe[s] \o c]
    /\ writes' = writes + 1
    /\ UNCHANGED <<orchVars, callVars, cfgVars, connVars, proc, killSent, wopen, spawns, chanVars, readVars,
                   bgVars, cliVars, histVars>>

\* It closes one of the two streams and goes on running.
ProcCloseStream ==
    /\ proc = "running"
    /\ \E s \in {1, 2} :
        /\ wopen[s]
        /\ wopen' = [wopen EXCEPT ![s] = FALSE]
    /\ UNCHANGED <<orchVars, callVars, cfgVars, connVars, proc, killSent, pipe, writes, spawns, chanVars,
                   readVars, bgVars, cliVars, histVars>>

\* It exits on its own: both write ends close.
ProcExit ==
    /\ proc = "running"
    /\ proc' = "exited"
    /\ wopen' = <<FALSE, FALSE>>
    /\ UNCHANGED <<orchVars, callVars, cfgVars, connVars, killSent, pipe, writes, spawns, chanVars, readVars,
                   bgVars, cliVars, histVars>>

\* It dies of the kill signal.
ProcKilled ==
    /\ proc = "running"
    /\ killSent
    /\ proc' = "exited"
    /\ wopen' = <<FALSE, FALSE>>
    /\ UNCHANGED <<orchVars, callVars, cfgVars, connVars, killSent, pipe, writes, spawns, chanVars, readVars,
                   bgVars, cliVars, histVars>>

----
\* Time

\* Time passes up to the next deadline of an armed timer; a timer that reaches its
\* deadline resumes the goroutine parked on it.
Tick ==
    LET connArmed == Parked /\ connTimer > 0
        closeArmed == closePc = "select" /\ closeTimer > 0
        armed == (IF connArmed THEN {connTimer} ELSE {})
                 \cup (IF closeArmed THEN {closeTimer} ELSE {})
    IN  /\ armed # {}
        /\ LET d == Min(armed)
           IN  /\ IF connArmed
                  THEN /\ connTimer' = IF connTimer = d THEN -1 ELSE connTimer - d
                       /\ woken' = IF connTimer = d THEN "timeout" ELSE woken
                  ELSE UNCHANGED <<connTimer, woken>>
               /\ IF closeArmed
                  THEN /\ closeTimer' = IF closeTimer = d THEN -1 ELSE closeTimer - d
                       /\ closePc' = IF closeTimer = d THEN "timeout" ELSE closePc
                       /\ closeCur' = [closeCur EXCEPT !.waited = @ + d]
                  ELSE UNCHANGED <<closeTimer, closePc, closeCur>>
        /\ UNCHANGED <<orchVars, callVars, cfgVars, pc, result, ret, publicURL, cmd, procVars, chanVars,
                       readVars, bgVars, closes, waitPc, histVars>>

----
\* The callers of the session: Close (lines 267-280), Wait (283-285), PublicURL (260-264)

\* Where connect is when Close is called.
Phase ==
    CASE pc \in {"build", "start"} -> "prespawn"
      [] pc = "selectEntry" -> "spawned"
      [] pc = "select" /\ woken = "none" -> "waiting"
      [] pc = "select" /\ woken # "none" -> "decided"
      [] pc = "ret" -> "returned"
      [] pc = "done" /\ ret = "tunnel" -> "established"
      [] OTHER -> "failed"

\* Close, line 268: t.cancel().  A caller of NewTunnel holds the session once
\* NewTunnel has returned it; code that shares the Tunnel value (shared) can call
\* Close from the moment the value exists.
CloseCall(shared) ==
    /\ closePc = "idle"
    /\ IF shared
       THEN pc # "new" /\ Len(closes) < MaxSharedCloses
       ELSE ret = "tunnel" /\ Len(closes) < MaxCloses
    /\ ctxDone' = TRUE
    /\ ConnWake("cancel")
    /\ closeCur' = [at |-> Phase, blocked |-> FALSE, waited |-> 0]
    /\ closePc' = "kill"
    /\ UNCHANGED <<orchVars, callVars, cfgVars, pc, result, ret, publicURL, cmd, procVars, urlChan,
                   errChan, doneCloses, readVars, bgVars, closes, closeTimer, waitPc,
                   histVars>>

CloseBegin == CloseCall(FALSE)

CloseBeginShared == CloseCall(TRUE)

\* A Close call that returned.
Closed(res) == [at |-> closeCur.at, res |-> res, blocked |-> closeCur.blocked,
                waited |-> IF res = "CloseTimeout" THEN closeCur.waited ELSE 0]

\* Close, lines 270-274: kill the subprocess if there is one and enter the select;
\* with t.done already closed Close returns at once, otherwise it parks with the
\* timer armed.
CloseKill ==
    /\ closePc = "kill"
    /\ IF cmd = "set" /\ proc # "nil" THEN Kill ELSE UNCHANGED killSent
    /\ IF DoneClosed /\ "done" \in CloseCases
       THEN /\ closes' = Append(closes, Closed("ok"))
            /\ closePc' = "idle"
            /\ UNCHANGED <<closeCur, closeTimer>>
       ELSE /\ closeCur' = [closeCur EXCEPT !.blocked = TRUE]
            /\ closeTimer' = IF "timeout" \in CloseCases THEN CloseWait ELSE -1
            /\ closePc' = "select"
            /\ UNCHANGED closes
    /\ UNCHANGED <<orchVars, callVars, cfgVars, connVars, proc, wopen, pipe, writes, spawns, chanVars, readVars,
                   bgVars, waitPc, histVars>>

\* Close, lines 275-276: t.done was closed.
CloseReturnDone ==
    /\ closePc = "done"
    /\ closes' = Append(closes, Closed("ok"))
    /\ closePc' = "idle"
    /\ UNCHANGED <<orchVars, callVars, cfgVars, connVars, procVars, chanVars, readVars, bgVars, closeCur,
                   closeTimer, waitPc, histVars>>

\* Close, lines 277-278: the timer fired.
CloseReturnTimeout ==
    /\ closePc = "timeout"
    /\ closes' = Append(closes, Closed("CloseTimeout"))
    /\ closePc' = "idle"
    /\ UNCHANGED <<orchVars, callVars, cfgVars, connVars, procVars, chanVars, readVars, bgVars, closeCur,
                   closeTimer, waitPc, histVars>>

\* Wait is called: it blocks on t.done unless t.done is closed already.
WaitCall ==
    /\ waitPc = "idle"
    /\ ret = "tunnel"
    /\ waitPc' = IF DoneClosed THEN "released" ELSE "blocked"
    /\ UNCHANGED <<orchVars, callVars, cfgVars, connVars, procVars, chanVars, readVars, bgVars, closePc, closeCur,
                   closes, closeTimer, histVars>>

\* t.done was closed: Wait returns.
WaitReturn ==
    /\ waitPc = "blocked"
    /\ DoneClosed
    /\ waitPc' = "released"
    /\ UNCHANGED <<orchVars, callVars, cfgVars, connVars, procVars, chanVars, readVars, bgVars, closePc, closeCur,
                   closes, closeTimer, histVars>>

\* PublicURL() returns t.publicURL (read under t.mu).
PublicURL == publicURL

----
\* The command-line program (part_003): runQRLocal and createPublicTunnel

\* The command lines and configurations of the runs.
PortArgs == {"3000", "0", "65536", "abc"}

RunNames == {"", "pinggy", "broken", "nope"}

CopyFlags == {"unset", "true"}

LocalIPs == {"192.168.1.5", ""}

\* strconv.Atoi, for the arguments in use.
Atoi(a) ==
    CASE a = "3000" -> [err |-> FALSE, v |-> 3000]
      [] a = "0" -> [err |-> FALSE, v |-> 0]
      [] a = "65536" -> [err |-> FALSE, v |-> 65536]
      [] OTHER -> [err |-> TRUE, v |-> 0]

\* runQRLocal returns err.
RunFail(e) == [run EXCEPT !.pc = "exit", !.err = e]

\* runQRLocal, lines 250-262: parse the port argument, apply the defaults of the
\* configuration.
RunParse ==
    /\ run.pc = "parse"
    /\ run' = IF Atoi(flags.port).err \/ Atoi(flags.port).v < 1 \/ Atoi(flags.port).v > 65535
              THEN RunFail([s |-> <<"invalid port number: ", flags.port>>, n |-> <<>>])
              ELSE [run EXCEPT !.pc = "listen",
                               !.port = Atoi(flags.port).v,
                               !.copyFlag = (flags.copy = "true")
                                            \/ (flags.copy = "unset" /\ cfg.CopyToClipboard)]
    /\ UNCHANGED <<cfg, flags, lookup, callVars, cfgVars, connVars, procVars, chanVars,
                   readVars, bgVars, cliVars, histVars>>

\* A variant that goes on when nothing listens.
PortCheckFails_Never(active) == FALSE

\* !network.IsPortActive(port), line 268.
PortCheckFails(active) == ~active

\* runQRLocal, lines 267-275: network.IsPortActive dials 127.0.0.1:port.
RunPortCheck ==
    /\ run.pc = "listen"
    /\ \E active \in BOOLEAN :
        run' = IF PortCheckFails(active)
               THEN [RunFail([s |-> <<"port ", " is not active">>, n |-> <<run.port>>])
                       EXCEPT !.listener = "inactive"]
               ELSE [run EXCEPT !.pc = IF flags.public THEN "probe" ELSE "local",
                                !.listener = IF active THEN "active" ELSE "inactive"]
    /\ UNCHANGED <<cfg, flags, lookup, callVars, cfgVars, connVars, procVars, chanVars,
                   readVars, bgVars, cliVars, histVars>>

\* A variant that leaves the port out of the URL.
GenerateLocalURL_NoPort(ip, port) == [s |-> <<"http://", ip>>, n |-> <<>>]

\* network.GenerateLocalURL (network.go lines 80-86): fmt.Sprintf("http://%s:%d", ip, port).
GenerateLocalURL(ip, port) == [s |-> <<"http://", ip, ":">>, n |-> <<port>>]

\* runQRLocal, lines 284-292: the local URL; GetLocalIP may find no address.
RunLocalURL ==
    /\ run.pc = "local"
    /\ \E ip \in LocalIPs :
        run' = IF ip = ""
               THEN RunFail(Str("no local IP address found"))
               ELSE [run EXCEPT !.pc = "copy", !.url = GenerateLocalURL(ip, run.port),
                                !.localIP = ip, !.isPublic = FALSE]
    /\ UNCHANGED <<cfg, flags, lookup, callVars, cfgVars, connVars, procVars, chanVars,
                   readVars, bgVars, cliVars, histVars>>

\* A variant that goes on when the probe fails.
ProbeFails_Never(online) == FALSE

\* !tunnel.IsOnline(), part_003 line 320.
ProbeFails(online) == ~online

\* createPublicTunnel, lines 319-325: tunnel.IsOnline dials 1.1.1.1:443.
RunProbe ==
    /\ run.pc = "probe"
    /\ \E online \in BOOLEAN :
        run' = IF ProbeFails(online)
               THEN [RunFail(Str("no internet connection")) EXCEPT !.probe = "offline"]
               ELSE [run EXCEPT !.pc = "resolve",
                                !.probe = IF online THEN "online" ELSE "offline"]
    /\ UNCHANGED <<cfg, flags, lookup, callVars, cfgVars, connVars, procVars, chanVars,
                   readVars, bgVars, cliVars, histVars>>

\* providerName, lines 328-331.
ProviderName == IF flags.provider = "" THEN cfg.DefaultProvider ELSE flags.provider

\* createPublicTunnel, lines 327-339: resolve the provider.
RunResolve ==
    /\ run.pc = "resolve"
    /\ lookup' = [called |-> TRUE, name |-> ProviderName, out |-> GetProvider(ProviderName, cfg)]
    /\ run' = IF GetProvider(ProviderName, cfg).err # ""
              THEN RunFail(Str(GetProvider(ProviderName, cfg).err))
              ELSE [run EXCEPT !.pc = "newTunnel"]
    /\ UNCHANGED <<cfg, flags, callVars, cfgVars, connVars, procVars, chanVars,
                   readVars, bgVars, cliVars, histVars>>

\* createPublicTunnel, lines 344-350: tunnel.NewTunnel is called with the port and
\* the provider; Timeout is left unset.
RunNewTunnel ==
    /\ run.pc = "newTunnel"
    /\ pc = "off"
    /\ provider' = lookup.out.p
    /\ localPort' = run.port
    /\ cfgTimeout' = 0
    /\ timeoutArg' = 0
    /\ pc' = "new"
    /\ run' = [run EXCEPT !.pc = "tunnel"]
    /\ UNCHANGED <<cfg, flags, lookup, args, startErr, result, ret, publicURL, cmd, woken,
                   connTimer, procVars, chanVars, readVars, bgVars, cliVars, histVars>>

\* createPublicTunnel, lines 350-359, and runQRLocal, lines 279-283: NewTunnel
\* returned.
RunTunnelReturn ==
    /\ run.pc = "tunnel"
    /\ pc = "done"
    /\ run' = IF ret = "nil"
              THEN RunFail(Str(result))
              ELSE [run EXCEPT !.pc = "copy", !.activeTunnel = TRUE,
                               !.url = [s |-> PublicURL, n |-> <<>>], !.isPublic = TRUE]
    /\ UNCHANGED <<cfg, flags, lookup, callVars, cfgVars, connVars, procVars, chanVars,
                   readVars, bgVars, cliVars, histVars>>

\* A variant that returns when the clipboard cannot be written.
AfterCopy_Fatal(ok) == IF ok THEN "render" ELSE "exit"

\* Where runQRLocal goes on after clipboard.WriteAll returned (lines 296-300):
\* both branches only print.
AfterCopy(ok) == "render"

\* runQRLocal, lines 294-301: clipboard.WriteAll, whose failure is only printed.
RunCopy ==
    /\ run.pc = "copy"
    /\ \E ok \in BOOLEAN :
        run' = [run EXCEPT !.pc = IF run.copyFlag THEN AfterCopy(ok) ELSE "render",
                           !.clipboard = IF ~run.copyFlag THEN "none"
                                         ELSE IF ok THEN "copied" ELSE "failed"]
    /\ UNCHANGED <<cfg, flags, lookup, callVars, cfgVars, connVars, procVars, chanVars,
                   readVars, bgVars, cliVars, histVars>>

\* What RenderOutput was called with, and whether it succeeded.
Rendered(ok) == [done |-> TRUE, ok |-> ok, url |-> run.url, isPublic |-> run.isPublic]

\* runQRLocal, lines 303-315: renderer.RenderOutput(url, isPublic); then wait for
\* the signal if there is a tunnel.
RunRender ==
    /\ run.pc = "render"
    /\ \E ok \in BOOLEAN :
        run' = IF ~ok
               THEN [RunFail(Str("render failed")) EXCEPT !.rendered = Rendered(FALSE)]
               ELSE [run EXCEPT !.pc = IF run.activeTunnel THEN "wait" ELSE "exit",
                                !.rendered = Rendered(TRUE)]
    /\ UNCHANGED <<cfg, flags, lookup, callVars, cfgVars, connVars, procVars, chanVars,
                   readVars, bgVars, cliVars, histVars>>

\* waitForShutdown, lines 362-371: SIGINT or SIGTERM arrives.
RunSignal ==
    /\ run.pc = "wait"
    /\ run' = [run EXCEPT !.pc = "cleanup"]
    /\ UNCHANGED <<cfg, flags, lookup, callVars, cfgVars, connVars, procVars, chanVars,
                   readVars, bgVars, cliVars, histVars>>

\* A variant that cleans up without waiting for the signal.
CleanupReady_Early == run.pc \in {"wait", "cleanup"}

\* cleanupTunnel runs in the case of waitForShutdown's select that received the
\* signal (lines 367-370); the context of the other case is cancelled on return only.
CleanupReady == run.pc = "cleanup"

\* A variant that signals the subprocess itself.
Cleanup_KillDirect ==
    /\ killSent' = TRUE
    /\ UNCHANGED <<orchVars, callVars, cfgVars, connVars, proc, wopen, pipe, writes, spawns,
                   chanVars, readVars, bgVars, cliVars, histVars>>

\* What cleanupTunnel does with the session: activeTunnel.Close() (line 381).
Cleanup == CloseBegin

\* cleanupTunnel, lines 379-381: activeTunnel.Close() is called.
RunClose ==
    /\ CleanupReady
    /\ run.activeTunnel
    /\ closePc = "idle"
    /\ closes = <<>>
    /\ Cleanup

\* cleanupTunnel, lines 381-386, and runQRLocal, line 315: Close returned.
RunExit ==
    /\ run.pc = "cleanup"
    /\ closePc = "idle"
    /\ closes # <<>>
    /\ run' = [run EXCEPT !.pc = "exit", !.report = closes[Len(closes)].res]
    /\ UNCHANGED <<cfg, flags, lookup, callVars, cfgVars, connVars, procVars, chanVars,
                   readVars, bgVars, cliVars, histVars>>

----
\* The command-line program of cmd/qrlocal/main.go, which has no configuration:
\* its createPublicTunnel (lines 141-188); the rest of it is as in part_003.

\* The values of --provider in its runs.
ProviderFlags == {"localhost.run", "pinggy", "serveo", "nope"}

\* The switch on providerFlag, main.go lines 158-168.
SelectProvider(name) == IF name = "pinggy" THEN Pinggy ELSE LocalhostRun

\* createPublicTunnel, main.go lines 142-155: tunnel.HasSSH, then tunnel.IsOnline.
RunChecks ==
    /\ run.pc = "probe"
    /\ \E ssh \in BOOLEAN, online \in BOOLEAN :
        run' = IF ~ssh THEN RunFail(Str("ssh not available"))
               ELSE IF ~online
               THEN [RunFail(Str("no internet connection")) EXCEPT !.probe = "offline"]
               ELSE [run EXCEPT !.pc = "select", !.probe = "online"]
    /\ UNCHANGED <<cfg, flags, lookup, callVars, cfgVars, connVars, procVars, chanVars,
                   readVars, bgVars, cliVars, histVars>>

\* createPublicTunnel, main.go lines 157-168: select the provider.
RunSelectProvider ==
    /\ run.pc = "select"
    /\ lookup' = [called |-> TRUE, name |-> flags.provider,
                  out |-> [err |-> "", p |-> SelectProvider(flags.provider)]]
    /\ run' = [run EXCEPT !.pc = "newTunnel"]
    /\ UNCHANGED <<cfg, flags, callVars, cfgVars, connVars, procVars, chanVars,
                   readVars, bgVars, cliVars, histVars>>

----
\* Specifications

\* The steps the Go scheduler, the timers and the kernel take on their own.
Progress ==
    \/ NewTunnel \/ ConnectBuild \/ StartOk \/ StartFail \/ SelectEntry
    \/ SelectURL \/ SelectErr \/ SelectTimeout \/ SelectCancelled \/ NewTunnelReturn
    \/ ScanFound \/ ScanRead \/ ScanNextReader \/ ScanEOFFound \/ ScanEOF
    \/ DrainRead \/ DrainNextReader \/ DrainEnd
    \/ MonitorWait \/ MonitorClose \/ CtxWatch \/ ProcKilled \/ Tick
    \/ CloseKill \/ CloseReturnDone \/ CloseReturnTimeout \/ WaitReturn

\* A session used through NewTunnel and the methods of the Tunnel it returns.
Next ==
    \/ NewTunnel \/ ConnectBuild \/ StartOk \/ StartFail \/ SelectEntry
    \/ SelectURL \/ SelectErr \/ SelectTimeout \/ NewTunnelReturn
    \/ ScanFound \/ ScanRead \/ ScanNextReader \/ ScanEOFFound \/ ScanEOF
    \/ DrainRead \/ DrainNextReader \/ DrainEnd
    \/ MonitorWait \/ MonitorClose \/ CtxWatch
    \/ ProcWrite \/ ProcCloseStream \/ ProcExit \/ ProcKilled \/ Tick
    \/ CloseBegin \/ CloseKill \/ CloseReturnDone \/ CloseReturnTimeout
    \/ WaitCall \/ WaitReturn

Spec == Init /\ [][Next]_vars

FairSpec == Spec /\ WF_vars(Progress)

\* A session whose Tunnel value is shared from its construction on: Close can run
\* while connect is in progress and after connect failed.
NextShared ==
    \/ NewTunnel \/ ConnectBuild \/ StartOk \/ StartFail \/ SelectEntry
    \/ SelectURL \/ SelectErr \/ SelectTimeout \/ SelectCancelled \/ NewTunnelReturn
    \/ ScanFound \/ ScanRead \/ ScanNextReader \/ ScanEOFFound \/ ScanEOF
    \/ DrainRead \/ DrainNextReader \/ DrainEnd
    \/ MonitorWait \/ MonitorClose \/ CtxWatch
    \/ ProcWrite \/ ProcCloseStream \/ ProcExit \/ ProcKilled \/ Tick
    \/ CloseBeginShared \/ CloseKill \/ CloseReturnDone \/ CloseReturnTimeout
    \/ WaitCall \/ WaitReturn

SpecShared == Init /\ [][NextShared]_vars

\* The launch of the subprocess alone, over LaunchProviders, LaunchPorts and
\* LaunchTimeouts: NewTunnel up to the return of cmd.Start.
NextLaunch == NewTunnel \/ ConnectBuild \/ StartOk \/ StartFail \/ NewTunnelReturn

InitLaunch == InitWith(LaunchProviders, LaunchPorts, LaunchTimeouts)

SpecLaunch == InitLaunch /\ [][NextLaunch]_vars

\* A session with the timeout left unset or set to the default.
InitDefault == InitWith(Providers, Ports, {0, DefaultTimeout})

SpecDefault == InitDefault /\ [][Next]_vars

\* Sessions with every provider GetProvider resolves for the names ListProviders
\* gives, from the default configuration and from the built-ins alone.
ResolvedProviders ==
    {GetProvider(ListBuiltinProviders[i], c).p :
        i \in 1..Len(ListBuiltinProviders), c \in {DefaultConfig, NilConfig}}

InitResolved == InitWith(ResolvedProviders, Ports, {3})

SpecResolved == InitResolved /\ [][Next]_vars

\* tunnel.GetProvider called with any name of Names, with no configuration and
\* with the configurations of FileConfigs.
InitOff ==
    /\ provider = NoProvider
    /\ localPort = 0
    /\ cfgTimeout = 0
    /\ timeoutArg = 0
    /\ pc = "off"
    /\ TunnelIdle
    /\ lookup = NoLookup

GetProviderCall ==
    /\ ~lookup.called
    /\ \E name \in Names :
        lookup' = [called |-> TRUE, name |-> name, out |-> GetProvider(name, cfg)]
    /\ UNCHANGED <<cfg, flags, run, callVars, cfgVars, connVars, procVars, chanVars,
                   readVars, bgVars, cliVars, histVars>>

InitResolve == InitOff /\ cfg \in ResolveConfigs /\ flags = NoFlags /\ run = RunIdle

SpecResolve == InitResolve /\ [][GetProviderCall]_vars

\* A run of the command-line program.
InitRun ==
    /\ InitOff
    /\ cfg \in FileConfigs
    /\ flags \in [port : PortArgs, public : BOOLEAN, copy : CopyFlags, provider : RunNames]
    /\ run = [RunIdle EXCEPT !.pc = "parse"]

NextRun ==
    \/ RunParse \/ RunPortCheck \/ RunLocalURL \/ RunProbe \/ RunResolve
    \/ RunNewTunnel \/ RunTunnelReturn \/ RunCopy \/ RunRender
    \/ RunSignal \/ RunClose \/ RunExit
    \/ NewTunnel \/ ConnectBuild \/ StartOk \/ StartFail \/ SelectEntry
    \/ SelectURL \/ SelectErr \/ SelectTimeout \/ NewTunnelReturn
    \/ ScanFound \/ ScanRead \/ ScanNextReader \/ ScanEOFFound \/ ScanEOF
    \/ DrainRead \/ DrainNextReader \/ DrainEnd
    \/ MonitorWait \/ MonitorClose \/ CtxWatch
    \/ ProcWrite \/ ProcCloseStream \/ ProcExit \/ ProcKilled \/ Tick
    \/ CloseKill \/ CloseReturnDone \/ CloseReturnTimeout

SpecRun == InitRun /\ [][NextRun]_vars

\* A run of the command-line program of cmd/qrlocal/main.go.
InitRunMain ==
    /\ InitOff
    /\ cfg = NilConfig
    /\ flags \in [port : PortArgs, public : BOOLEAN, copy : CopyFlags, provider : ProviderFlags]
    /\ run = [RunIdle EXCEPT !.pc = "parse"]

NextRunMain ==
    \/ RunParse \/ RunPortCheck \/ RunLocalURL \/ RunChecks \/ RunSelectProvider
    \/ RunNewTunnel \/ RunTunnelReturn \/ RunCopy \/ RunRender
    \/ RunSignal \/ RunClose \/ RunExit
    \/ NewTunnel \/ ConnectBuild \/ StartOk \/ StartFail \/ SelectEntry
    \/ SelectURL \/ SelectErr \/ SelectTimeout \/ NewTunnelReturn
    \/ ScanFound \/ ScanRead \/ ScanNextReader \/ ScanEOFFound \/ ScanEOF
    \/ DrainRead \/ DrainNextReader \/ DrainEnd
    \/ MonitorWait \/ MonitorClose \/ CtxWatch
    \/ ProcWrite \/ ProcCloseStream \/ ProcExit \/ ProcKilled \/ Tick
    \/ CloseKill \/ CloseReturnDone \/ CloseReturnTimeout

SpecRunMain == InitRunMain /\ [][NextRunMain]_vars

\* The same with fair scheduling, for one configuration.
InitCancel == Init /\ provider = LocalhostRun /\ cfgTimeout = 3

FairSpecCancel == InitCancel /\ [][NextShared]_vars /\ WF_vars(Progress)

----
\* Properties

\* The end of the first line of s: its first newline, or its end if it has none.
LineEnd(s) == IF FirstNL(s) > 0 THEN FirstNL(s) ELSE Len(s)

\* The match of re in the first line of s that has one, empty if no line has one.
RECURSIVE FirstMatchOf(_, _)
FirstMatchOf(re, s) ==
    IF s = <<>> THEN <<>>
    ELSE IF FindString(re, SubSeq(s, 1, LineEnd(s))) # <<>>
         THEN FindString(re, SubSeq(s, 1, LineEnd(s)))
         ELSE FirstMatchOf(re, SubSeq(s, LineEnd(s) + 1, Len(s)))

\* The outcomes of a connect that spawned the subprocess, and the failures among them.
SpawnedOutcomes == {"Established", "NoURLProduced", "ConnectTimeout", "Cancelled"}

FailureOutcomes == {"NoURLProduced", "ConnectTimeout", "Cancelled"}

\* C1: when connect succeeds, the public URL is exactly the text the provider's
\* pattern matches in the first line of the stream the scanning goroutine read
\* that has a match; the lines before it contribute nothing.
C1_URLIsFirstMatch ==
    result = "Established" =>
        /\ PublicURL # <<>>
        /\ PublicURL = FirstMatchOf(provider.URLRegex, consumed)

\* C1 happens: connect succeeded after a line without a match was discarded, and
\* the URL is a proper part of the line it was found in.
C1_Witness ==
    /\ result = "Established"
    /\ FindString(provider.URLRegex, SubSeq(consumed, 1, LineEnd(consumed))) = <<>>
    /\ Len(consumed) > LineEnd(consumed) + Len(PublicURL) + 1

\* C2: the public URL is written at most once; it is empty as long as connect has
\* not succeeded, it is set when connect reports success, and once set no step of
\* the session (Close, Wait, the drain and monitor goroutines) changes it.
C2_URLWrittenOnce ==
    /\ [](/\ urlWrites <= 1
          /\ result # "Established" => PublicURL = <<>>
          /\ result = "Established" => PublicURL # <<>> /\ urlWrites = 1)
    /\ [][PublicURL # <<>> => PublicURL' = PublicURL]_vars

\* C2 happens: the URL is set and the session has been closed, waited on and
\* its monitor goroutine has finished.
C2_Witness ==
    /\ PublicURL # <<>>
    /\ Len(closes) = 2
    /\ waitPc = "released"
    /\ monPc = "done"

\* C3: a connect that spawned the subprocess returns exactly one of Established,
\* NoURLProduced, ConnectTimeout and Cancelled, the one of the select case that
\* resumed it; on a failure connect has killed the subprocess, the URL is empty
\* and NewTunnel returns no session; on Established connect has not killed the
\* subprocess; at most one subprocess is spawned.
C3_OneOutcome ==
    /\ [](/\ spawns <= 1
          /\ (spawns = 1 /\ pc \in {"ret", "done"}) => result \in SpawnedOutcomes
          /\ result \in SpawnedOutcomes => spawns = 1
          /\ result \in FailureOutcomes =>
                /\ connKilled
                /\ killSent \/ proc # "running"
                /\ PublicURL = <<>>
                /\ ret # "tunnel"
                /\ pc = "done" => ret = "nil"
          /\ result = "Established" => ~connKilled
          /\ (result = "Established" /\ pc = "done") => ret = "tunnel")
    /\ [][result # "none" => result' = result]_vars
    /\ [][(pc = "select" /\ pc' = "ret") =>
            result' = CASE woken = "url" -> "Established"
                        [] woken = "err" -> "NoURLProduced"
                        [] woken = "timeout" -> "ConnectTimeout"
                        [] woken = "cancel" -> "Cancelled"]_vars

\* C3 happens: connect spawned the subprocess and NewTunnel returned after the
\* cancellation won the race.
C3_Witness ==
    /\ spawns = 1
    /\ pc = "done"
    /\ result = "Cancelled"

\* The output of the subprocess ended and no line of it has a match.
EOFNoMatch ==
    /\ spawns = 1
    /\ mr = 3
    /\ FirstMatchOf(provider.URLRegex, consumed) = <<>>

\* C4 as stated: once the end of the output without a match has been reported to
\* connect, connect returns NoURLProduced.
C4_AsStated ==
    [][(pc = "select" /\ errChan # <<>> /\ pc' = "ret") => result' = "NoURLProduced"]_vars

\* C4, amended: once the end of the output without a match is reported, connect is
\* not left waiting; it returns NoURLProduced unless its timeout had already fired,
\* and in either case NewTunnel returns, with NoURLProduced or ConnectTimeout.
C4_EOFEndsConnect ==
    /\ [](errChan # <<>> => ~Parked)
    /\ (errChan # <<>> /\ pc \in {"selectEntry", "select"} /\ woken # "timeout")
          ~> (result = "NoURLProduced")
    /\ EOFNoMatch ~> (pc = "done" /\ result \in {"NoURLProduced", "ConnectTimeout"})

\* C4 happens: the output ended without a match and NewTunnel returned NoURLProduced.
C4_Witness ==
    /\ EOFNoMatch
    /\ pc = "done"
    /\ result = "NoURLProduced"

\* C5 as stated: a second Close that follows a Close that returned has the same
\* outcome as the first and does not block; t.done is closed at most once.
C5_AsStated ==
    /\ doneCloses <= 1
    /\ Len(closes) >= 2 => closes[2].res = closes[1].res /\ ~closes[2].blocked

\* C5, amended: after a Close that returned success, every later Close returns
\* success without blocking; t.done is closed at most once.
C5_CloseAgain ==
    /\ doneCloses <= 1
    /\ \A i \in 1..Len(closes) : \A j \in 1..Len(closes) :
          (i < j /\ closes[i].res = "ok") => closes[j].res = "ok" /\ ~closes[j].blocked
    /\ (closes # <<>> /\ closes[Len(closes)].res = "ok") => closePc \in {"idle", "kill"}

\* C5 happens: a Close that blocked until t.done was closed returned success and
\* a second Close returned after it.
C5_Witness ==
    /\ Len(closes) = 2
    /\ closes[1].res = "ok"
    /\ closes[1].blocked

\* C6 as stated: a Close of a session whose connect failed or has not completed
\* returns success, never CloseTimeout.
C6_AsStated ==
    \A i \in 1..Len(closes) :
        closes[i].at # "established" => closes[i].res = "ok"

\* C7: a Close that was called returns; by then the context is cancelled and a
\* running subprocess has been sent the kill signal; it returns success only if
\* t.done was closed, which takes the subprocess to have exited, and CloseTimeout
\* only after waiting the 5 units of its timer; while it waits the timer is armed.
C7_CloseReturns ==
    /\ [](/\ closePc # "idle" => ctxDone
          /\ closePc \in {"select", "done", "timeout"} => killSent \/ proc # "running"
          /\ closePc = "select" => closeTimer \in 1..CloseWait
          /\ closePc = "done" => doneCloses > 0
          /\ \A i \in 1..Len(closes) :
                /\ ctxDone
                /\ killSent \/ proc # "running"
                /\ closes[i].res \in {"ok", "CloseTimeout"}
                /\ closes[i].res = "ok" => doneCloses > 0 /\ proc = "reaped"
                /\ closes[i].res = "CloseTimeout" =>
                      closes[i].blocked /\ closes[i].waited = CloseWait)
    /\ (closePc # "idle") ~> (closePc = "idle")

\* C7 happens: one Close returned CloseTimeout after its 5 units and another
\* returned success.
C7_Witness ==
    /\ Len(closes) = 2
    /\ closes[1].res = "CloseTimeout"
    /\ closes[1].waited = CloseWait
    /\ closes[2].res = "ok"

\* C8: t.done is closed only after the subprocess has exited and cmd.Wait has
\* returned; once the subprocess of an Established session has exited t.done is
\* eventually closed, and a caller blocked in Wait is then released.
C8_DoneAfterExit ==
    /\ [](/\ doneCloses > 0 => proc = "reaped" /\ result = "Established"
          /\ waitPc = "released" => doneCloses > 0)
    /\ (result = "Established" /\ proc \in {"exited", "reaped"}) ~> (doneCloses > 0)
    /\ (waitPc = "blocked" /\ proc \in {"exited", "reaped"}) ~> (waitPc = "released")
    /\ (waitPc = "blocked" /\ closePc # "idle") ~> (waitPc = "released")

\* C8 happens: a caller that blocked in Wait was released after the subprocess
\* exited on its own, no Close having been called.
C8_Witness ==
    /\ waitPc = "released"
    /\ closes = <<>>
    /\ closePc = "idle"
    /\ ~killSent
    /\ doneCloses = 1

\* Where connect was when Close cancelled the context, "none" if Close was not called.
CancelAt == IF closes # <<>> THEN closes[1].at ELSE closeCur.at

LineMatchIn(re, s) ==
    \E n \in 1..Len(s) : s[n] = NL /\ FindString(re, SubSeq(s, 1, n)) # <<>>

\* C10 as stated: while the scanning goroutine is looking for the URL, a matching
\* line written on either stream is within its reach: it can read on, whether or
\* not the other stream is open and silent.
C10_AsStated ==
    \A st \in {1, 2} :
        (scanPc = "scan" /\ LineMatchIn(provider.URLRegex, pipe[st])) =>
            ENABLED (ScanFound \/ ScanRead \/ ScanNextReader)

\* A write of the subprocess on stream st waits for room in the pipe.
WriteBlocked(st) ==
    /\ proc = "running"
    /\ wopen[st]
    /\ \E c \in Chunks(provider) : Len(pipe[st]) + Len(c) > PipeCap

\* C11 as stated: while the session is Established, a write of the subprocess
\* that waits for room in the pipe of either stream is not left waiting: the drain
\* goroutine can read on.
C11_AsStated ==
    \A st \in {1, 2} :
        (result = "Established" /\ WriteBlocked(st)) =>
            ENABLED (DrainRead \/ DrainNextReader)

\* C12: the remote-forward argument that follows "-R" on the command line is
\* "0:localhost:<localPort>" for the provider whose descriptor asks for remote port
\* 0, the one named pinggy, and "80:localhost:<localPort>" for every other provider,
\* whatever the relay host, the port and the timeout.
C12_RemoteForward ==
    args # <<>> =>
        /\ args[Len(args) - 2] = Str("-R")
        /\ args[Len(args) - 1] =
              [s |-> <<":localhost:">>,
               n |-> <<IF provider.Name = "pinggy" THEN 0 ELSE 80, localPort>>]

\* C12 happens: the subprocess was spawned with remote port 0 for the pinggy entry
\* that has another relay host.
C12_Witness ==
    /\ spawns = 1
    /\ provider = PinggyEU
    /\ args[Len(args) - 1].n = <<0, localPort>>

\* C13: a timeout of 0 gives what a timeout of DefaultTimeout gives: NewTunnel
\* hands DefaultTimeout to connect, the command line says ConnectTimeout=30, and
\* the timer of connect's select is armed with DefaultTimeout.
C13_DefaultTimeout ==
    /\ [](timeoutArg \in {0, DefaultTimeout} =>
            /\ pc # "new" => cfgTimeout = DefaultTimeout
            /\ args # <<>> => args[8] = [s |-> <<"ConnectTimeout=">>, n |-> <<30>>]
            /\ connTimer <= DefaultTimeout)
    /\ [][(timeoutArg \in {0, DefaultTimeout} /\ pc = "selectEntry" /\ Parked')
             => connTimer' = DefaultTimeout]_vars

\* C13 happens: a connect called with timeout 0 ran into its deadline.
C13_Witness ==
    /\ timeoutArg = 0
    /\ result = "ConnectTimeout"
    /\ args[8].n = <<DefaultTimeout>>

\* C14 as stated: with a localPort outside 1..65535 no subprocess is spawned and
\* connect fails with InvalidPort.
C14_AsStated ==
    localPort \notin 1..65535 =>
        /\ spawns = 0
        /\ pc \in {"ret", "done"} => result = "InvalidPort"

\* The spawn errors that are network conditions: DNS failure, connection refused,
\* network unreachable or no route, timeout.
NetworkCondition(e) ==
    e.msg \in { "no such host", "connection refused", "network is unreachable",
                "no route to host", "connection timed out", "i/o timeout" }

\* C15 as stated: when cmd.Start fails, connect reports TunnelUnreachable exactly
\* when the error is a network condition and LaunchFailed otherwise; no scanning
\* goroutine is started and no session is returned.
C15_AsStated ==
    startErr # NoError =>
        /\ result = IF NetworkCondition(startErr) THEN "TunnelUnreachable" ELSE "LaunchFailed"
        /\ scanPc = "off"
        /\ ret # "tunnel"

\* Name has an entry in configuration c, and the entry Config.GetProvider finds.
InConfig(c, name) ==
    ~c.isNil /\ name \in (DOMAIN c.Providers) \cup (DOMAIN c.CustomProviders)

ConfigEntry(c, name) ==
    IF name \in DOMAIN c.Providers THEN c.Providers[name] ELSE c.CustomProviders[name]

\* The descriptor a configuration entry describes.
Configured(name, e) ==
    [Name |-> name, Host |-> e.Host, Port |-> Itoa(e.Port), User |-> e.User,
     URLRegex |-> Matcher(e.URLRegex)]

\* The built-in providers by their names and aliases, in any case of the letters.
BuiltinNames ==
    { "localhost.run", "localhostrun", "pinggy", "pinggy.io", "serveo", "serveo.net",
      "tunnelto", "tunnel.to" }

Builtin(name) ==
    CASE ToLower(name) \in {"localhost.run", "localhostrun"} -> LocalhostRun
      [] ToLower(name) \in {"pinggy", "pinggy.io"} -> Pinggy
      [] ToLower(name) \in {"serveo", "serveo.net"} -> Serveo
      [] OTHER -> TunnelTo

\* What C16 says of a name without a configuration entry: the built-in descriptor,
\* UnknownProvider exactly when there is none either, and with no configuration
\* every name of ListBuiltinProviders resolves.
ResolvesBuiltin ==
    /\ (~InConfig(cfg, lookup.name) /\ ToLower(lookup.name) \in BuiltinNames) =>
            lookup.out = [err |-> "", p |-> Builtin(lookup.name)]
    /\ lookup.out.err = "unknown provider" <=>
            (~InConfig(cfg, lookup.name) /\ ToLower(lookup.name) \notin BuiltinNames)
    /\ cfg.isNil =>
            \A i \in 1..Len(ListBuiltinProviders) :
                lookup.name = ListBuiltinProviders[i] => lookup.out.err = ""

\* C16 as stated: GetProvider returns the configured descriptor whenever the name
\* has an entry in the configuration, the providers map before the custom
\* providers; otherwise the built-in descriptor; UnknownProvider exactly when the
\* name is in neither.
C16_AsStated ==
    lookup.called =>
        /\ InConfig(cfg, lookup.name) =>
                lookup.out = [err |-> "",
                              p |-> Configured(lookup.name, ConfigEntry(cfg, lookup.name))]
        /\ ResolvesBuiltin

\* C16: GetProvider returns the configured descriptor whenever the name has an
\* entry in the configuration whose pattern compiles, the providers map before the
\* custom providers, and fails with the invalid-pattern error when the pattern of
\* the entry does not compile; otherwise it returns the built-in descriptor, and
\* UnknownProvider exactly when the name is in neither; with no configuration
\* every name of ListBuiltinProviders resolves; the call changes nothing else.
C16_Resolve ==
    /\ [](lookup.called =>
            /\ (/\ InConfig(cfg, lookup.name)
                /\ CompileError(ConfigEntry(cfg, lookup.name).URLRegex, 1, 0, FALSE) = "") =>
                    lookup.out = [err |-> "",
                                  p |-> Configured(lookup.name, ConfigEntry(cfg, lookup.name))]
            /\ (/\ InConfig(cfg, lookup.name)
                /\ CompileError(ConfigEntry(cfg, lookup.name).URLRegex, 1, 0, FALSE) # "") =>
                    lookup.out = [err |-> "invalid URL regex", p |-> NoProvider]
            /\ ResolvesBuiltin)
    /\ [][lookup' # lookup =>
            UNCHANGED <<cfg, flags, run, callVars, cfgVars, connVars, procVars, chanVars,
                        readVars, bgVars, cliVars, histVars>>]_vars

\* C16 happens: "pinggy" was resolved with a configuration that has the name in
\* the providers map and among the custom providers, to the entry of the former.
C16_Witness ==
    /\ lookup.called
    /\ lookup.name = "pinggy"
    /\ "pinggy" \in DOMAIN cfg.CustomProviders
    /\ lookup.out.p.Host = "a.pinggy.io"

\* C17: an entry of the configuration whose pattern does not compile gives no
\* Provider: GetProvider fails with the invalid-pattern error, the run ends there
\* and NewTunnel is not called, so nothing is spawned; the Provider of every
\* Tunnel has a compiled pattern.
C17_ValidPattern ==
    /\ (/\ lookup.called
        /\ InConfig(cfg, lookup.name)
        /\ CompileError(ConfigEntry(cfg, lookup.name).URLRegex, 1, 0, FALSE) # "") =>
            /\ lookup.out = [err |-> "invalid URL regex", p |-> NoProvider]
            /\ run.pc = "exit"
            /\ run.err = Str("invalid URL regex")
            /\ pc = "off"
            /\ spawns = 0
    /\ pc # "off" =>
            /\ provider.URLRegex # NoRegex
            /\ provider.URLRegex.body # {}
            /\ provider.URLRegex.suffix # {}

\* C17 happens: a public run, online, whose provider has a pattern that does not
\* compile, has ended.
C17_Witness ==
    /\ run.pc = "exit"
    /\ run.probe = "online"
    /\ lookup.called
    /\ InConfig(cfg, lookup.name)
    /\ Compile(ConfigEntry(cfg, lookup.name).URLRegex).err = "missing closing ]"

\* C18: in public mode, when the probe reports offline the run fails with "no
\* internet connection", no provider is resolved and nothing is spawned; a Tunnel
\* is constructed and a subprocess spawned only after the probe reported online.
C18_OfflineStops ==
    /\ run.probe = "offline" =>
            /\ run.pc = "exit"
            /\ run.err = Str("no internet connection")
            /\ ~lookup.called
            /\ pc = "off"
            /\ spawns = 0
    /\ (lookup.called \/ pc # "off" \/ spawns > 0) => run.probe = "online"
    /\ run.probe # "none" => flags.public

\* C18 happens: a public run with a listener on the port found itself offline.
C18_Witness ==
    /\ flags.public
    /\ run.listener = "active"
    /\ run.probe = "offline"
    /\ run.pc = "exit"

\* C19: when nothing listens on the port the run fails with an error that names
\* the port; no URL is computed, nothing is copied or rendered, no probe is made
\* and nothing is spawned.
C19_NoListenerStops ==
    /\ run.listener = "inactive" =>
            /\ run.pc = "exit"
            /\ run.err = [s |-> <<"port ", " is not active">>, n |-> <<Atoi(flags.port).v>>]
            /\ run.url = NoURL
            /\ run.clipboard = "none"
            /\ ~run.rendered.done
            /\ run.probe = "none"
            /\ ~lookup.called
            /\ pc = "off"
            /\ spawns = 0
    /\ (run.url # NoURL \/ run.probe # "none" \/ run.rendered.done \/ pc # "off") =>
            run.listener = "active"

\* C19 happens: a run with a valid port has ended because nothing listens there.
C19_Witness ==
    /\ run.listener = "inactive"
    /\ run.pc = "exit"
    /\ run.err.n = <<3000>>

\* C20: in local mode, with a listener on port p and the local address a, the URL
\* handed to RenderOutput is "http://a:p" with the public flag false; no Tunnel is
\* created and the run does not wait for a signal.
C20_LocalURL ==
    ~flags.public =>
        /\ run.rendered.done =>
                /\ run.listener = "active"
                /\ run.rendered.url = [s |-> <<"http://", run.localIP, ":">>,
                                       n |-> <<Atoi(flags.port).v>>]
                /\ run.localIP # ""
                /\ ~run.rendered.isPublic
        /\ ~run.activeTunnel
        /\ pc = "off"
        /\ spawns = 0
        /\ run.pc \notin {"wait", "cleanup"}

\* C20 happens: a local run for port 3000 with the address 192.168.1.5 rendered
\* its URL and returned.
C20_Witness ==
    /\ ~flags.public
    /\ run.pc = "exit"
    /\ run.rendered.ok
    /\ run.rendered.url = [s |-> <<"http://", "192.168.1.5", ":">>, n |-> <<3000>>]

\* C21: the outcome of the clipboard write changes nothing but what is printed:
\* after it runQRLocal goes on to RenderOutput with the URL, the public flag and
\* the session it had, whether the write succeeded, failed or was not asked for;
\* a run whose clipboard write failed fails only if rendering fails, and with a
\* session and the output rendered it waits for the signal.
C21_ClipboardNotFatal ==
    /\ [][run.pc = "copy" =>
            /\ run'.pc \in {"copy", "render"}
            /\ run'.url = run.url
            /\ run'.isPublic = run.isPublic
            /\ run'.activeTunnel = run.activeTunnel
            /\ run'.err = run.err]_vars
    /\ [](run.clipboard = "failed" =>
            /\ run.rendered.done => run.rendered.url = run.url
            /\ (run.pc = "exit" /\ run.err # NoURL) => run.err = Str("render failed")
            /\ (run.rendered.ok /\ run.activeTunnel) => run.pc \in {"wait", "cleanup", "exit"}
            /\ (run.pc = "exit" /\ run.rendered.ok /\ run.activeTunnel) => closes # <<>>)

\* C21 happens: the clipboard write failed, the URL of the session was rendered
\* and the run waits for the signal.
C21_Witness ==
    /\ run.clipboard = "failed"
    /\ run.rendered.ok
    /\ run.activeTunnel
    /\ run.pc = "wait"

C23_ProviderUnchanged ==
    [][provider' = provider /\ localPort' = localPort]_vars

\* C23 happens: a session was established, closed and waited on, its goroutines
\* have finished, and its provider is one with a port of its own.
C23_Witness ==
    /\ ret = "tunnel"
    /\ closes # <<>>
    /\ waitPc = "released"
    /\ scanPc = "done"
    /\ drainPc = "done"
    /\ monPc = "done"
    /\ provider = Pinggy

\* C24: in a run of the program NewTunnel is called at most once and at most one
\* subprocess is spawned; the kill signal is sent only by connect's failure
\* paths, by Close and by the watcher of the session's context, the subprocess is
\* reaped only by the monitor goroutine, and no step of runQRLocal itself touches it.
C24_OneSession ==
    /\ [](spawns <= 1)
    /\ [][(pc' # pc /\ pc' = "new") => pc = "off"]_vars
    /\ [][pc # "off" => pc' # "off"]_vars
    /\ [][killSent' # killSent =>
            \/ pc = "select" /\ woken \in {"err", "timeout", "cancel"}
            \/ closePc = "kill"
            \/ watchPc = "on" /\ ctxDone]_vars
    /\ [][(proc' = "reaped" /\ proc # "reaped") => (monPc = "wait" /\ monPc' = "close")]_vars
    /\ [][run' # run => UNCHANGED <<proc, killSent, spawns>>]_vars

\* C24 happens: the one subprocess of a run was killed by Close after the signal
\* and reaped by the monitor goroutine, and the run has returned.
C24_Witness ==
    /\ run.pc = "exit"
    /\ spawns = 1
    /\ killSent
    /\ proc = "reaped"
    /\ closes # <<>>

\* C25 as stated: in public mode the probe precedes the resolution of the provider
\* and that precedes NewTunnel; a provider name that has no entry in the
\* configuration and is no built-in name ends the run with the unknown-provider
\* error, with no Tunnel constructed and nothing spawned.
C25_AsStated ==
    /\ (lookup.called \/ pc # "off") => run.probe = "online"
    /\ pc # "off" => (lookup.called /\ lookup.out.err = "" /\ provider = lookup.out.p)
    /\ (/\ flags.public
        /\ ~InConfig(cfg, ProviderName)
        /\ ToLower(ProviderName) \notin BuiltinNames) =>
            /\ pc = "off"
            /\ spawns = 0
            /\ lookup.called => (run.pc = "exit" /\ run.err = Str("unknown provider"))

\* The positions of the command line that hold the argument a.
ArgPositions(a) == {i \in 1..Len(args) : args[i] = a}

\* C26: the command line starts with the option that disables the host-key
\* prompt, has the option ConnectTimeout=<the timeout NewTunnel defaulted, in
\* seconds>, has "-p <port>" exactly when the provider's port is not "22", and
\* ends with "-R", the remote forward and <user>@<host>.
C26_Arguments ==
    args # <<>> =>
        /\ args[1] = Str("-o")
        /\ args[2] = Str("StrictHostKeyChecking=no")
        /\ \E i \in ArgPositions([s |-> <<"ConnectTimeout=">>,
                                  n |-> <<IF timeoutArg = 0 THEN 30 ELSE timeoutArg>>]) :
                i > 1 /\ args[i - 1] = Str("-o")
        /\ ArgPositions(Str("-p")) # {} <=> provider.Port # "22"
        /\ \A i \in ArgPositions(Str("-p")) :
                /\ i + 1 < Len(args) - 2
                /\ args[i + 1] = Str(provider.Port)
        /\ Len(args) >= 3
        /\ args[Len(args) - 2] = Str("-R")
        /\ args[Len(args) - 1] = RemoteForward(provider, localPort)
        /\ args[Len(args)] = [s |-> <<provider.User, "@", provider.Host>>, n |-> <<>>]

\* C26 happens: ssh was spawned for a provider on port 443 with the timeout left
\* unset.
C26_Witness ==
    /\ spawns = 1
    /\ timeoutArg = 0
    /\ provider.Port = "443"
    /\ Len(args) = 13
    /\ args[9] = Str("-p")

\* The scanning goroutine is at a send: ReadString returned a line with a match,
\* or the end of the stream.
ScanAtSend ==
    /\ scanPc = "scan"
    /\ \/ mr = 3
       \/ /\ mr \in {1, 2}
          /\ pipe[mr] # <<>>
          /\ ScanLineComplete
          /\ ScanMatch(ScanLine) # <<>>

\* C27: the scanning goroutine sends at most one message over urlChan and errChan
\* together, its send never has to wait, whether connect is still in its select
\* or has returned, and the goroutine comes to its end.
C27_ScannerNeverBlocks ==
    /\ [](/\ Len(urlChan) + Len(errChan) <= 1
          /\ ScanAtSend => (SendReady(urlChan) /\ SendReady(errChan)))
    /\ [][(Len(urlChan') > Len(urlChan) \/ Len(errChan') > Len(errChan)) =>
            (scanPc = "scan" /\ scanPc' = "done")]_vars
    /\ [][scanPc = "done" => scanPc' = "done"]_vars
    /\ (scanPc = "scan") ~> (scanPc = "done")

\* C27 happens: connect returned on its timeout and the scanning goroutine
\* sent its message afterwards, to a channel nobody reads.
C27_Witness ==
    /\ result = "ConnectTimeout"
    /\ pc = "done"
    /\ scanPc = "done"
    /\ errChan # <<>>

\* C28 as stated: whenever runQRLocal has returned after a tunnel was established,
\* the render failure included, Close has been called on the tunnel.
C28_AsStated ==
    (run.pc = "exit" /\ run.activeTunnel) => closes # <<>>

\* C29 as stated: with a provider resolved from the default configuration or from
\* the built-ins, the public URL of an established session begins with "https://".
C29_AsStated ==
    (result = "Established" /\ provider \in ResolvedProviders) =>
        PublicURL[1] = "https://"

====
